---- MODULE Spec2Model ----
(***************************************************************************)
(* Model of the Android platform bridge of RingRTC                         *)
(* (src/rust/src/android/android_platform.rs).                             *)
(*                                                                         *)
(* Native threads call the adapter operations of AndroidPlatform and clone *)
(* and drop the reference-counted handle wrappers AndroidCallContext and   *)
(* AndroidConnection.  Every operation first obtains a JNIEnv through      *)
(* java_env(), which attaches the calling thread to the JVM when it has no *)
(* binding, and then invokes a method of the Java CallManager.             *)
(*                                                                         *)
(* A thread's position inside an operation is pc[t]; an operation is cut   *)
(* at the points where it crosses into the JVM, so that the steps of       *)
(* different threads interleave there.                                     *)
(***************************************************************************)
EXTENDS Integers, Sequences, FiniteSets, TLC

\* ------------------------------------------------------------------ bounds
NumThreads == 2
MaxHandles == 3
MaxOwners == 2
MaxTotalOps == 3
MaxOwnerOps == 2
MaxConnectionOps == 2
MaxHandleOps == 5
MaxSignalingOps == 2
MaxCallOps == 2
MaxIceOps == 1
MaxCandidates == 2
NumCandidateKinds == 2
NumEvents == 2
NumConnIds == 2
MaxCacheOps == 2
\* The widths of a call id and of a device id, scaled down from 64 and 32
\* bits: the casts are the same reinterpretation at every width.
CallIdBits == 3
DeviceIdBits == 2

Threads == 1..NumThreads
HandleIds == 1..MaxHandles
ConnIds == 1..NumConnIds
Events == 0..(NumEvents - 1)

\* ------------------------------------------------- names used by the code
RINGRTC_PACKAGE == "org/signal/ringrtc"
CALL_MANAGER_CLASS == "CallManager"
ICE_CANDIDATE_CLASS == "org/webrtc/IceCandidate"
CALL_EVENT_CLASS == "org/signal/ringrtc/CallManager$CallEvent"
ENUM_FROM_NATIVE_INDEX_METHOD == "fromNativeIndex"

VARIABLES
    attached,    \* attached[t]: thread t has a binding to the JVM (get_env succeeds)
    classCache,  \* AndroidPlatform.class_cache: the class names resolved by new()
    handles,     \* the Arc<JavaCallContext> / Arc<JavaConnection> allocations
    pc,          \* pc[t]: the operation thread t is in, and where
    issued,      \* issued[c]: the signaling operations issued for connection id c
    hostLog,     \* hostLog[c]: the signaling notifications the host received for c
    opsLeft,     \* adapter operations the native engine may still issue
    ownerOps,    \* handle constructions, clones and drops it may still make
    remotes      \* remotes[c]: the host's GlobalRef of remote peer c: "live" or
                 \* "released"

vars == <<attached, classCache, handles, pc, issued, hostLog, opsLeft, ownerOps, remotes>>

\* --------------------------------------------------------------- results
Ok == [kind |-> "Ok", target |-> "", method |-> ""]
Err(kind) == [kind |-> kind, target |-> "", method |-> ""]
ErrNamed(kind, target, method) == [kind |-> kind, target |-> target, method |-> method]
NoResult == [kind |-> "none", target |-> "", method |-> ""]
\* What a drop returns: nothing.
Unit == [kind |-> "Unit", target |-> "", method |-> ""]

\* The ways an invocation of a Java method can end: it returns, it throws, or
\* the JVM rejects the call before the method runs (no such method, bad
\* arguments).
CallOutcomes == {"ok", "exception", "rejected"}

\* jni_call_method(): Ok with the value, or the JniCallMethod error.
JniCallMethodSwallowed(out) == Ok

JniCallMethod(out) == IF out = "ok" THEN Ok ELSE Err("JniCallMethod")

\* One invocation of a Java method by thread t, as the JVM sees it.
HostCall(t, method, args, out) ==
    [method |-> method, bound |-> attached[t], out |-> out, args |-> args, ret |-> <<>>]

\* The host method ran: it returned or threw.
Received(call) == call.out # "rejected"

\* ------------------------------------------------------------ thread state
Idle ==
    [op |-> "none", step |-> "idle", h |-> 0, made |-> 0, conn |-> 0, tk |-> 0,
     arg |-> <<>>, val |-> <<>>, env |-> "none", res |-> NoResult, calls |-> <<>>]

Free(t) == pc[t].step \in {"idle", "done"}

\* AndroidPlatform::java_env(): the JNIEnv of the current thread when it has a
\* binding, otherwise the result of attach_current_thread_as_daemon().
JavaEnvAlwaysAttaches(t, attachOk) == [ok |-> attachOk, att |-> attachOk]

JavaEnvIgnoresFailure(t, attachOk) == [ok |-> TRUE, att |-> attached[t]]

JavaEnv(t, attachOk) ==
    IF attached[t] THEN [ok |-> TRUE, att |-> TRUE]
    ELSE IF attachOk THEN [ok |-> TRUE, att |-> TRUE]
    ELSE [ok |-> FALSE, att |-> FALSE]

\* How the JVM answered the attachment question of java_env() for thread t:
\* the thread was bound already, it was attached now, or attaching failed.
AttachOutcome(t, attachOk) ==
    IF attached[t] THEN "bound" ELSE IF attachOk THEN "attached" ELSE "failed"

\* ----------------------------------------------------------------- handles
\* One Arc<JavaCallContext> ("call") or Arc<JavaConnection> ("conn").
\*   strong      the Arc's strong count
\*   owners      the owning wrappers alive (the original and its clones)
\*   shared      the handle has been cloned
\*   phase       "none" (slot unused), "live", "dropping" (the inner Drop is
\*               running), "freed" (fields released)
\*   closes      close notifications the host received for the handle
\*   attempts    close invocations the bridge made for the handle
\*   dropEnv     how the java_env() call of the inner Drop ended: "ok" (the
\*               thread was bound or was attached) or "failed"
\*   refLive     the handle still holds its GlobalRef
\*   obj         what the GlobalRef refers to: "object", or "null"
\*   cache       the class cache of the handle's own AndroidPlatform clone
NoHandleRec ==
    [kind |-> "none", strong |-> 0, owners |-> 0, shared |-> FALSE,
     phase |-> "none", closes |-> 0, attempts |-> 0,
     dropEnv |-> "none", refLive |-> FALSE,
     obj |-> "none", cache |-> {}]

\* try_clone(): class_cache: self.class_cache.clone()
CloneWithEmptyCache(cache) == {}

TryCloneCache(cache) == cache

NewHandleRec(kind, obj) ==
    [kind |-> kind, strong |-> 1, owners |-> 1, shared |-> FALSE,
     phase |-> "live", closes |-> 0, attempts |-> 0,
     dropEnv |-> "none", refLive |-> TRUE,
     obj |-> obj, cache |-> TryCloneCache(classCache)]

FreeSlots == {h \in HandleIds : handles[h].kind = "none"}
NextSlot == CHOOSE h \in FreeSlots : \A g \in FreeSlots : h <= g

\* Slots promised to create_connection calls that are under way.
Reserved == {t \in Threads : pc[t].op = "create_connection" /\ pc[t].step \in {"cc_call", "cc_wrap"}}

CLOSE_CALL_METHOD == "closeCall"
CLOSE_CONNECTION_METHOD == "closeConnection"
CloseMethod(kind) == IF kind = "call" THEN CLOSE_CALL_METHOD ELSE CLOSE_CONNECTION_METHOD

\* Arc::drop runs the inner Drop exactly when it releases the last strong
\* reference (the wrappers derive Clone over an Arc).
EveryDropIsLast(h) == TRUE

IsLastOwner(h) == handles[h].strong = 1

\* The inner Drop calls the close method only with an env in hand
\* (if let Ok(env) = self.platform.java_env()).
DropStepAlwaysClose(env) == "drop_close"

DropStepAfterEnv(env) == IF env.ok THEN "drop_close" ELSE "drop_fields"

\* The inner Drop of handle h (whose record is hrec) starts on thread t:
\* java_env(), then the close call when an env was obtained.  p is the thread's
\* record, holding the result that is returned once the drop is over.
\* The inner structure while its Drop::drop body runs: drop(&mut self) has
\* the fields intact; they are released after the body.
FieldsReleasedFirst(hrec) == [hrec EXCEPT !.refLive = FALSE]

DuringDropBody(hrec) == hrec

StartInnerDrop(t, h, hrec, p, attachOk) ==
    LET env == JavaEnv(t, attachOk) IN
    /\ attached' = [attached EXCEPT ![t] = env.att]
    /\ handles' = [handles EXCEPT ![h] =
            [DuringDropBody(hrec) EXCEPT !.phase = "dropping",
                         !.dropEnv = IF AttachOutcome(t, attachOk) = "failed"
                                     THEN "failed" ELSE "ok"]]
    /\ pc' = [pc EXCEPT ![t] = [p EXCEPT !.step = DropStepAfterEnv(env)]]

\* The handle whose inner Drop thread record p is running.
Dropping(p) == IF p.op = "create_connection" THEN p.made ELSE p.h

\* AndroidCallContext::new(platform, jni_call_context)
CallContextNew(t) ==
    /\ Free(t)
    /\ ownerOps > 0
    /\ ownerOps' = ownerOps - 1
    /\ Cardinality(FreeSlots) > Cardinality(Reserved)
    /\ handles' = [handles EXCEPT ![NextSlot] = NewHandleRec("call", "object")]
    /\ UNCHANGED <<attached, classCache, pc, issued, hostLog, remotes, opsLeft>>

\* #[derive(Clone)] over the Arc: the clone shares the inner structure and
\* counts as one more strong reference.
CloneWithoutCount(n) == n

ArcClone(n) == n + 1

CloneHandle(t, h) ==
    /\ Free(t)
    /\ ownerOps > 0
    /\ ownerOps' = ownerOps - 1
    /\ handles[h].owners >= 1
    /\ handles[h].owners < MaxOwners
    /\ handles' = [handles EXCEPT ![h] =
            [@ EXCEPT !.strong = ArcClone(@), !.owners = @ + 1, !.shared = TRUE]]
    /\ UNCHANGED <<attached, classCache, pc, issued, hostLog, remotes, opsLeft>>

\* Drop of one owning wrapper; the inner Drop runs when it was the last.
DropHandle(t, h) ==
    /\ Free(t)
    /\ ownerOps > 0
    /\ ownerOps' = ownerOps - 1
    /\ handles[h].owners >= 1
    /\ LET hrec == [handles[h] EXCEPT !.strong = @ - 1, !.owners = @ - 1] IN
       IF IsLastOwner(h)
       THEN \E attachOk \in BOOLEAN :
              StartInnerDrop(t, h, hrec,
                             [Idle EXCEPT !.op = "drop", !.h = h, !.res = Unit],
                             attachOk)
       ELSE /\ handles' = [handles EXCEPT ![h] = hrec]
            /\ UNCHANGED <<attached, pc>>
    /\ UNCHANGED <<classCache, issued, hostLog, remotes, opsLeft>>

\* impl Drop for JavaCallContext / JavaConnection: the close call, its result
\* discarded (let _ = jni_call_method(..)).
DropClose(t) ==
    /\ pc[t].step = "drop_close"
    /\ \E out \in CallOutcomes :
         LET h == Dropping(pc[t])
             call == HostCall(t, CloseMethod(handles[h].kind), <<h, handles[h].refLive>>, out)
         IN
         /\ handles' = [handles EXCEPT ![h] =
                [@ EXCEPT !.closes = @ + (IF Received(call) THEN 1 ELSE 0),
                          !.attempts = @ + 1]]
         /\ pc' = [pc EXCEPT ![t] =
                [@ EXCEPT !.step = "drop_fields", !.calls = Append(@, call)]]
    /\ UNCHANGED <<attached, classCache, issued, hostLog, remotes, opsLeft, ownerOps>>

\* The fields of the inner structure are dropped in declaration order: the
\* platform (impl Drop for AndroidPlatform: let _ = self.java_env()), then the
\* GlobalRef of the Java object.
DropFields(t) ==
    /\ pc[t].step = "drop_fields"
    /\ \E attachOk \in BOOLEAN :
         attached' = [attached EXCEPT ![t] = JavaEnv(t, attachOk).att]
    /\ handles' = [handles EXCEPT ![Dropping(pc[t])] =
            [@ EXCEPT !.phase = "freed", !.refLive = FALSE]]
    /\ pc' = [pc EXCEPT ![t] = [@ EXCEPT !.step = "done"]]
    /\ UNCHANGED <<classCache, issued, hostLog, remotes, opsLeft, ownerOps>>

\* ------------------------------------------------------ adapter operations
START_CALL_METHOD == "onStartCall"
ON_EVENT_METHOD == "onEvent"
SEND_OFFER_MESSAGE_METHOD == "onSendOffer"
SEND_ANSWER_MESSAGE_METHOD == "onSendAnswer"
ON_SEND_ICE_CANDIDATES_METHOD == "onSendIceCandidates"
SEND_HANGUP_MESSAGE_METHOD == "onSendHangup"
SEND_BUSY_MESSAGE_METHOD == "onSendBusy"
CONNECT_MEDIA_METHOD == "onConnectMedia"
CLOSE_MEDIA_METHOD == "onCloseMedia"
COMPARE_REMOTES_METHOD == "compareRemotes"
CALL_CONCLUDED_METHOD == "onCallConcluded"
CREATE_CONNECTION_METHOD == "createConnection"

MethodOf(op) ==
    CASE op = "on_start_call" -> START_CALL_METHOD
      [] op = "on_event" -> ON_EVENT_METHOD
      [] op = "on_send_offer" -> SEND_OFFER_MESSAGE_METHOD
      [] op = "on_send_answer" -> SEND_ANSWER_MESSAGE_METHOD
      [] op = "on_send_ice_candidates" -> ON_SEND_ICE_CANDIDATES_METHOD
      [] op = "on_send_hangup" -> SEND_HANGUP_MESSAGE_METHOD
      [] op = "on_send_busy" -> SEND_BUSY_MESSAGE_METHOD
      [] op = "on_connect_media" -> CONNECT_MEDIA_METHOD
      [] op = "on_close_media" -> CLOSE_MEDIA_METHOD
      [] op = "compare_remotes" -> COMPARE_REMOTES_METHOD
      [] op = "on_call_concluded" -> CALL_CONCLUDED_METHOD
      [] op = "create_connection" -> CREATE_CONNECTION_METHOD
      [] OTHER -> "none"

\* The operations that carry a ConnectionId: the signaling notifications.
SignalingOps ==
    {"on_send_offer", "on_send_answer", "on_send_ice_candidates",
     "on_send_hangup", "on_send_busy"}

\* Operations whose arguments are marshaled by a call that can fail before the
\* host method is invoked: env.new_string(description)? and
\* media_stream.global_ref(&env)?.
MarshalCanFail(op) == op \in {"on_send_offer", "on_send_answer", "on_connect_media"}

\* let env = self.java_env()?; is the first boundary step of every operation
\* except create_media_stream, which makes no boundary call.
SomeOpSkipsEnv(op) == op \notin {"create_media_stream", "on_send_busy"}

NeedsEnv(op) == op # "create_media_stream"

\* Where an operation continues once it has its env.
StepAfterEnv(op) ==
    CASE op = "on_event" -> "ev_lookup"
      [] op = "on_send_ice_candidates" -> "ice_call"
      [] op = "compare_remotes" -> "cmp_call"
      [] op = "create_connection" -> "cc_call"
      [] OTHER -> "call"

\* java_env()? fails: the operation returns the attachment error at once.
WaitForAttach(p) == [p EXCEPT !.step = "env_wait"]

AttachFailed(p) == [p EXCEPT !.step = "done", !.res = Err("AttachError")]

\* The record of connection id c once the operation with ticket tk returned.
MarkReturned(c, tk, res) ==
    [issued EXCEPT ![c] =
        [@ EXCEPT ![tk] = [@ EXCEPT !.ret = IF res.kind = "Ok" THEN "Ok" ELSE "Err"]]]

\* The host method runs inside the operation that notifies: the host sees the
\* notification at the moment of the call, after those it saw before.
DeliverFirst(log, e) == <<e>> \o log

Deliver(log, e) == Append(log, e)

\* Thread t enters operation p.op: the ticket of a signaling operation is
\* taken, then java_env()? is evaluated.
Enter(t, p) ==
    /\ Free(t)
    /\ opsLeft > 0
    /\ opsLeft' = opsLeft - 1
    /\ \E attachOk \in BOOLEAN :
         LET env == IF NeedsEnv(p.op) THEN JavaEnv(t, attachOk)
                    ELSE [ok |-> TRUE, att |-> attached[t]]
             sig == p.op \in SignalingOps
             tk == IF sig THEN Len(issued[p.conn]) + 1 ELSE 0
             q == [p EXCEPT !.tk = tk,
                            !.env = IF AttachOutcome(t, attachOk) = "failed"
                                    THEN "failed" ELSE "ok"]
             entry == [ret |-> IF env.ok THEN "pending" ELSE "Err",
                       pre |-> IF sig THEN {k \in 1..Len(issued[p.conn]) :
                                               issued[p.conn][k].ret # "pending"}
                               ELSE {}]
         IN
         /\ attached' = [attached EXCEPT ![t] = env.att]
         /\ pc' = [pc EXCEPT ![t] =
                IF env.ok THEN [q EXCEPT !.step = StepAfterEnv(p.op)]
                ELSE AttachFailed(q)]
         /\ issued' = IF sig THEN [issued EXCEPT ![p.conn] = Append(@, entry)]
                      ELSE issued
    /\ UNCHANGED <<classCache, handles, hostLog, remotes, ownerOps>>

\* remote_peer.as_obj(): the operation borrows the remote for the call and
\* leaves the reference with its owner.
ReleaseAfterUse(ref) == "released"

AsObj(ref) == ref

\* The remotes after an operation passed those in `used` to the host.
Borrowed(used) == [c \in ConnIds |-> IF c \in used THEN AsObj(remotes[c]) ELSE remotes[c]]

\* The arguments the host method of operation p.op is given.
HostArgs(p) ==
    CASE p.op = "on_event" -> <<p.conn>> \o p.val
      [] p.op \in {"on_connect_media", "on_close_media"} -> <<p.h>> \o p.arg
      [] OTHER -> <<p.conn>> \o p.arg

\* The operation of thread t ends with result res; `call` is the invocation
\* of the host notification it made, or <<>> when it made none.
Complete(t, res, call) ==
    LET p == pc[t]
        made == call # <<>>
    IN
    /\ pc' = [pc EXCEPT ![t] =
            [p EXCEPT !.step = "done", !.res = res,
                      !.calls = IF made THEN Append(@, call[1]) ELSE @]]
    /\ issued' = IF p.tk = 0 THEN issued ELSE MarkReturned(p.conn, p.tk, res)
    /\ hostLog' = IF p.tk # 0 /\ made /\ Received(call[1])
                  THEN [hostLog EXCEPT ![p.conn] =
                           Deliver(@, p.tk)]
                  ELSE hostLog
    /\ remotes' = IF made THEN Borrowed({p.conn}) ELSE remotes

\* What an operation still invokes once marshaling an argument has failed:
\* `?` returns the error, so the call that was being prepared is not made.
NotifiesAnyway(call) == <<call>>

AfterMarshalError(call) == <<>>

\* on_start_call, on_send_offer, on_send_answer, on_send_hangup, on_send_busy,
\* on_connect_media, on_close_media, on_call_concluded: marshal the arguments,
\* then jni_call_method(..)?; Ok(()).
InvokeHost(t) ==
    /\ pc[t].step = "call"
    /\ \E marshalOk \in BOOLEAN, out \in CallOutcomes :
         LET p == pc[t]
             fails == MarshalCanFail(p.op) /\ ~marshalOk
             call == HostCall(t, MethodOf(p.op), HostArgs(p), out)
         IN
         IF fails THEN Complete(t, Err("JniError"), AfterMarshalError(call))
         ELSE Complete(t, JniCallMethod(out), <<call>>)
    /\ UNCHANGED <<attached, classCache, handles, opsLeft, ownerOps>>

Op(op, c, h, arg) == [Idle EXCEPT !.op = op, !.conn = c, !.h = h, !.arg = arg]

\* CallDirection -> is_outgoing
IsOutgoing(direction) == direction = "OutGoing"

OnStartCall(t) ==
    \E c \in ConnIds, direction \in {"OutGoing", "InComing"} :
        Enter(t, Op("on_start_call", c, 0, <<IsOutgoing(direction)>>))

OnSendOffer(t) ==
    \E c \in ConnIds, broadcast \in BOOLEAN :
        Enter(t, Op("on_send_offer", c, 0, <<broadcast>>))

OnSendAnswer(t) ==
    \E c \in ConnIds, broadcast \in BOOLEAN :
        Enter(t, Op("on_send_answer", c, 0, <<broadcast>>))

OnSendHangup(t) ==
    \E c \in ConnIds, broadcast \in BOOLEAN :
        Enter(t, Op("on_send_hangup", c, 0, <<broadcast>>))

OnSendBusy(t) ==
    \E c \in ConnIds, broadcast \in BOOLEAN :
        Enter(t, Op("on_send_busy", c, 0, <<broadcast>>))

OnCallConcluded(t) ==
    \E c \in ConnIds : Enter(t, Op("on_call_concluded", c, 0, <<>>))

LiveCallContexts == {h \in HandleIds : handles[h].kind = "call" /\ handles[h].owners >= 1}

OnConnectMedia(t) ==
    \E h \in LiveCallContexts : Enter(t, Op("on_connect_media", 0, h, <<>>))

OnCloseMedia(t) ==
    \E h \in LiveCallContexts : Enter(t, Op("on_close_media", 0, h, <<>>))

\* create_media_stream: JavaMediaStream::new(stream), no boundary call.
CreateMediaStream(t) ==
    /\ Free(t)
    /\ opsLeft > 0
    /\ opsLeft' = opsLeft - 1
    /\ \E wrapOk \in BOOLEAN :
         pc' = [pc EXCEPT ![t] =
            [Op("create_media_stream", 0, 0, <<>>) EXCEPT
                !.step = "done",
                !.res = IF wrapOk THEN Ok ELSE Err("MediaStreamError")]]
    /\ UNCHANGED <<attached, classCache, handles, issued, hostLog, remotes, ownerOps>>

\* -------------------------------------------------------------- on_event
\* format!("{}/{}${}", RINGRTC_PACKAGE, CALL_MANAGER_CLASS, class)
ClassPath(class) == RINGRTC_PACKAGE \o "/" \o CALL_MANAGER_CLASS \o "$" \o class

\* ClassCache::get_class: the cached class, or an error when it was not added.
GetClass(name) == name \in classCache

\* event as i32: the ordinal of the ApplicationEvent value.
EventAsI32(event) == event

\* The host's CallEvent.fromNativeIndex(int): the enumeration value with that
\* native index.
FromNativeIndex(i) == [enum |-> "CallEvent", index |-> i]

\* What on_event returns when call_static_method fails.
LookupFailedGeneric(class_path) == Err("JniCallMethod")

LookupFailed(class_path) ==
    ErrNamed("JniCallStaticMethod", class_path, ENUM_FROM_NATIVE_INDEX_METHOD)

\* What on_event does with the outcome of the fromNativeIndex call.
LookupAlwaysProceeds(out) == TRUE

LookupSucceeded(out) == out = "ok"

OnEvent(t) ==
    \E c \in ConnIds, event \in Events : Enter(t, Op("on_event", c, 0, <<event>>))

\* class_cache.get_class(&class_path)?, then env.call_static_method(..).
EventLookup(t) ==
    /\ pc[t].step = "ev_lookup"
    /\ LET p == pc[t]
           class_path == ClassPath("CallEvent")
           index == EventAsI32(p.arg[1])
       IN
       IF ~GetClass(class_path)
       THEN Complete(t, ErrNamed("ClassCacheNotFound", class_path, ""), <<>>)
       ELSE \E out \in CallOutcomes :
              LET call == HostCall(t, ENUM_FROM_NATIVE_INDEX_METHOD, <<index>>, out) IN
              IF LookupSucceeded(out)
              THEN /\ pc' = [pc EXCEPT ![t] =
                          [p EXCEPT !.step = "call",
                                    !.val = <<IF out = "ok" THEN FromNativeIndex(index)
                                              ELSE [enum |-> "null", index |-> index]>>,
                                    !.calls = Append(@, call)]]
                   /\ UNCHANGED <<issued, hostLog, remotes>>
              ELSE /\ pc' = [pc EXCEPT ![t] =
                          [p EXCEPT !.step = "done", !.res = LookupFailed(class_path),
                                    !.calls = Append(@, call)]]
                   /\ UNCHANGED <<issued, hostLog, remotes>>
    /\ UNCHANGED <<attached, classCache, handles, opsLeft, ownerOps>>

\* ------------------------------------------------ on_send_ice_candidates
\* An IceCandidate of the native engine.
Candidate(k) == [sdp_mid |-> "mid" \o ToString(k), sdp_mline_index |-> k, sdp |-> "sdp" \o ToString(k)]

\* Every sequence of at most MaxCandidates candidates.
CandidateSeqs ==
    UNION {[1..n -> {Candidate(k) : k \in 1..NumCandidateKinds}] : n \in 0..MaxCandidates}

\* The sequences of 0..MaxCandidates pairwise different candidates, in the
\* order of their m-line index.
DistinctCandidateSeqs == {[i \in 1..n |-> Candidate(i)] : n \in 0..MaxCandidates}

\* env.new_string(s): the Java string with the characters of s.
JavaString(s) == [jstring |-> s]

\* env.new_object(ice_candidate_class, "(Ljava/lang/String;ILjava/lang/String;)V",
\*                [sdp_mid, sdp_mline_index, sdp])
NewIceCandidateSwapped(c) ==
    [sdpMid |-> JavaString(c.sdp), sdpMLineIndex |-> c.sdp_mline_index,
     sdp |-> JavaString(c.sdp_mid)]

NewIceCandidate(c) ==
    [sdpMid |-> JavaString(c.sdp_mid), sdpMLineIndex |-> c.sdp_mline_index,
     sdp |-> JavaString(c.sdp)]

\* ice_candidate_list.add(obj): java.util.List.add appends at the end.
ListAddFirst(list, obj) == <<obj>> \o list

ListAdd(list, obj) == Append(list, obj)

\* for candidate in ice_candidates { .. ice_candidate_list.add(..)?; }
RECURSIVE BuildList(_, _)
BuildList(list, cands) ==
    IF cands = <<>> THEN list
    ELSE BuildList(ListAdd(list, NewIceCandidate(Head(cands))), Tail(cands))

OnSendIceCandidates(t) ==
    \E c \in ConnIds, broadcast \in BOOLEAN, cands \in DistinctCandidateSeqs :
        Enter(t, Op("on_send_ice_candidates", c, 0, <<broadcast, cands>>))

\* The same operation, its input drawn from every candidate sequence.
OnSendAnyIceCandidates(t) ==
    \E c \in ConnIds, broadcast \in BOOLEAN, cands \in CandidateSeqs :
        Enter(t, Op("on_send_ice_candidates", c, 0, <<broadcast, cands>>))

\* Build the Java list, then notify.  failAt = 0: jni_new_linked_list fails;
\* failAt = i in 1..N: marshaling the i-th candidate fails, with i - 1
\* elements in the list; failAt = N + 1: nothing fails.
IceInvoke(t) ==
    /\ pc[t].step = "ice_call"
    /\ LET p == pc[t]
           cands == p.arg[2]
       IN
       IF ~GetClass(ICE_CANDIDATE_CLASS)
       THEN Complete(t, ErrNamed("ClassCacheNotFound", ICE_CANDIDATE_CLASS, ""), <<>>)
       ELSE \E failAt \in 0..(Len(cands) + 1), out \in CallOutcomes :
              LET built == IF failAt = 0 THEN 0
                           ELSE IF failAt > Len(cands) THEN Len(cands)
                           ELSE failAt - 1
                  list == BuildList(<<>>, SubSeq(cands, 1, built))
                  call == HostCall(t, ON_SEND_ICE_CANDIDATES_METHOD,
                                   <<p.conn, p.arg[1], list>>, out)
              IN
              IF failAt <= Len(cands)
              THEN Complete(t, Err("JniError"), AfterMarshalError(call))
              ELSE Complete(t, JniCallMethod(out), <<call>>)
    /\ UNCHANGED <<attached, classCache, handles, opsLeft, ownerOps>>

\* -------------------------------------------------------- compare_remotes
CompareRemotes(t) ==
    \E r1 \in ConnIds, r2 \in ConnIds :
        Enter(t, Op("compare_remotes", 0, 0, <<r1, r2>>))

\* What compare_remotes returns for the remotes in args when the host
\* answered `answer`.
CompareByReference(args, answer) == args[1] = args[2]

CompareResult(args, answer) == answer

\* jni_call_method(..)?.z()?: the boolean the host answered; the call record
\* keeps the host's answer in ret.
CompareInvoke(t) ==
    /\ pc[t].step = "cmp_call"
    /\ \E out \in CallOutcomes, answer \in BOOLEAN :
         LET p == pc[t]
             call == [HostCall(t, COMPARE_REMOTES_METHOD, p.arg, out) EXCEPT
                         !.ret = IF out = "ok" THEN <<answer>> ELSE <<>>]
         IN
         /\ pc' = [pc EXCEPT ![t] =
                [p EXCEPT !.step = "done", !.res = JniCallMethod(out),
                          !.val = IF out = "ok" THEN <<CompareResult(p.arg, answer)>>
                                  ELSE <<>>,
                          !.calls = Append(@, call)]]
         /\ remotes' = Borrowed({p.arg[1], p.arg[2]})
    /\ UNCHANGED <<attached, classCache, handles, issued, hostLog, opsLeft, ownerOps>>

\* ------------------------------------------------------ create_connection
\* if (*jni_connection).is_null() { return Err(CreateJniConnection) }
NullNotChecked(obj) == FALSE

IsNull(obj) == obj = "null"

\* Connection::new(call.clone(), remote_device)? and get_connection_ptr()?
\* come first, then java_env()?.
CreateConnection(t) ==
    /\ Cardinality(FreeSlots) > Cardinality(Reserved)
    /\ \E h \in LiveCallContexts, nativeOk \in BOOLEAN :
         IF nativeOk
         THEN Enter(t, Op("create_connection", 0, h, <<>>))
         ELSE /\ Free(t)
              /\ opsLeft > 0
              /\ opsLeft' = opsLeft - 1
              /\ pc' = [pc EXCEPT ![t] =
                     [Op("create_connection", 0, h, <<>>) EXCEPT
                         !.step = "done", !.res = Err("ConnectionNew")]]
              /\ UNCHANGED <<attached, classCache, handles, issued, hostLog, remotes, ownerOps>>

\* call.call_context()?, the createConnection call, result.l()? and the null
\* check.
CreateConnectionCall(t) ==
    /\ pc[t].step = "cc_call"
    /\ \E ctxOk \in BOOLEAN, out \in CallOutcomes, obj \in {"null", "object"} :
         LET p == pc[t]
             call == HostCall(t, CREATE_CONNECTION_METHOD, <<p.h>>, out)
             q == [p EXCEPT !.calls = Append(@, call),
                            !.val = IF out = "ok" THEN <<obj>> ELSE <<>>]
         IN
         pc' = [pc EXCEPT ![t] =
            IF ~ctxOk THEN [p EXCEPT !.step = "done", !.res = Err("CallContext")]
            ELSE IF out # "ok" THEN [q EXCEPT !.step = "done", !.res = JniCallMethod(out)]
            ELSE IF IsNull(obj)
                 THEN [q EXCEPT !.step = "done", !.res = Err("CreateJniConnection")]
            ELSE [q EXCEPT !.step = "cc_wrap"]]
    /\ UNCHANGED <<attached, classCache, handles, issued, hostLog, remotes, opsLeft, ownerOps>>

\* env.new_global_ref(..)?, self.try_clone()?, AndroidConnection::new(..),
\* connection.set_app_connection(..)?; Ok(connection).  When set_app_connection
\* fails, the AndroidConnection it was given is dropped: its only owner.
CreateConnectionWrap(t) ==
    /\ pc[t].step = "cc_wrap"
    /\ \E r \in {"gref_fail", "clone_fail", "set_fail", "ok"}, attachOk \in BOOLEAN :
         LET p == pc[t]
             slot == NextSlot
             new == NewHandleRec("conn", p.val[1])
         IN
         CASE r \in {"gref_fail", "clone_fail"} ->
                /\ pc' = [pc EXCEPT ![t] =
                       [p EXCEPT !.step = "done", !.res = Err("JniError")]]
                /\ UNCHANGED <<attached, handles>>
           [] r = "set_fail" ->
                StartInnerDrop(t, slot, [new EXCEPT !.strong = 0, !.owners = 0],
                               [p EXCEPT !.res = Err("SetAppConnection"), !.made = slot],
                               attachOk)
           [] r = "ok" ->
                /\ handles' = [handles EXCEPT ![slot] = new]
                /\ pc' = [pc EXCEPT ![t] =
                       [p EXCEPT !.step = "done", !.res = Ok, !.made = slot]]
                /\ UNCHANGED attached
    /\ UNCHANGED <<classCache, issued, hostLog, remotes, opsLeft, ownerOps>>

\* ------------------------------------------------------------ identifiers
\* u64::from(call_id): the unsigned values of a call id.
CallIds == 0..(2^CallIdBits - 1)

\* DeviceId, an unsigned integer as wide as the host's int.
DeviceIds == 0..(2^DeviceIdBits - 1)

\* `v as jlong`, `v as jint`: the cast of an unsigned value to the signed
\* type of w bits keeps the low w bits and reads them as two's complement.
AsSignedNarrow(v, w) ==
    LET m == v % (2^(w - 1)) IN IF m >= 2^(w - 2) THEN m - 2^(w - 1) ELSE m

AsSigned(v, w) ==
    LET m == v % (2^w) IN IF m >= 2^(w - 1) THEN m - 2^w ELSE m

AsJlong(call_id) == AsSigned(call_id, CallIdBits)

AsJint(remote_device) == AsSigned(remote_device, DeviceIdBits)

\* The identifiers of two connections are marshaled for the host, as at the
\* head of every operation that names a connection.
MarshalIds(t) ==
    /\ pc[t].op = "marshal_ids"
    /\ pc[t].step = "ids"
    /\ LET p == pc[t] IN
       pc' = [pc EXCEPT ![t] =
            [p EXCEPT !.step = "done", !.res = Ok,
                      !.val = <<AsJlong(p.arg[1]), AsJint(p.arg[2]),
                                AsJlong(p.arg[3]), AsJint(p.arg[4])>>]]
    /\ UNCHANGED <<attached, classCache, handles, issued, hostLog, remotes, opsLeft, ownerOps>>

\* ------------------------------------------------- AndroidPlatform::new
\* The classes new() adds to the cache.
RequiredClasses == {CALL_EVENT_CLASS, ICE_CANDIDATE_CLASS}

\* What the loop `class_cache.add_class(env, class)?` of new() yields when
\* the JVM can resolve the classes in `resolvable`.
AddClassesSkipsMissing(resolvable) ==
    [ok |-> TRUE, cache |-> RequiredClasses \cap resolvable]

AddClasses(resolvable) ==
    IF RequiredClasses \subseteq resolvable
    THEN [ok |-> TRUE, cache |-> RequiredClasses]
    ELSE [ok |-> FALSE, cache |-> {}]

\* The platform exists: new() returned Ok.
Constructed == classCache # {}

\* AndroidPlatform::new(env, jni_call_manager), called once before anything
\* else.  When it fails there is no platform: nothing can be invoked on it.
New ==
    /\ ~Constructed
    /\ opsLeft > 0
    /\ \E resolvable \in SUBSET RequiredClasses :
         LET added == AddClasses(resolvable) IN
         /\ classCache' = added.cache
         /\ opsLeft' = IF added.ok THEN opsLeft ELSE 0
         /\ ownerOps' = IF added.ok THEN ownerOps ELSE 0
    /\ UNCHANGED <<attached, handles, pc, issued, hostLog, remotes>>

\* ------------------------------------------------------------ the machine
\* AndroidPlatform::new(): both classes are added to the cache.  No thread is
\* taken to be bound: the engine's worker threads are not created by the JVM.
InitWith(ops, owner) ==
    /\ attached = [t \in Threads |-> FALSE]
    /\ classCache = {CALL_EVENT_CLASS, ICE_CANDIDATE_CLASS}
    /\ handles = [h \in HandleIds |-> NoHandleRec]
    /\ pc = [t \in Threads |-> Idle]
    /\ issued = [c \in ConnIds |-> <<>>]
    /\ hostLog = [c \in ConnIds |-> <<>>]
    /\ remotes = [c \in ConnIds |-> "live"]
    /\ opsLeft = ops
    /\ ownerOps = owner

\* The handle wrappers: construction, clone, drop.
HandleStep(t) ==
    \/ CallContextNew(t)
    \/ \E h \in HandleIds : CloneHandle(t, h)
    \/ \E h \in HandleIds : DropHandle(t, h)
    \/ DropClose(t)
    \/ DropFields(t)

ConnectionStep(t) ==
    \/ CreateConnection(t)
    \/ CreateConnectionCall(t)
    \/ CreateConnectionWrap(t)

\* The signaling notifications of a connection.
SignalingStep(t) ==
    \/ OnSendOffer(t)
    \/ OnSendAnswer(t)
    \/ OnSendIceCandidates(t)
    \/ IceInvoke(t)
    \/ OnSendHangup(t)
    \/ OnSendBusy(t)

\* The call-level notifications and queries.
CallStep(t) ==
    \/ OnStartCall(t)
    \/ OnEvent(t)
    \/ EventLookup(t)
    \/ CreateMediaStream(t)
    \/ OnConnectMedia(t)
    \/ OnCloseMedia(t)
    \/ CompareRemotes(t)
    \/ CompareInvoke(t)
    \/ OnCallConcluded(t)

\* Every operation of the bridge: a run makes MaxTotalOps operations, of which
\* 1..MaxOwnerOps construct, clone or drop handles.
Init == \E own \in 1..MaxOwnerOps : InitWith(MaxTotalOps - own, own)

Next ==
    \E t \in Threads :
        \/ HandleStep(t)
        \/ ConnectionStep(t)
        \/ SignalingStep(t)
        \/ CallStep(t)
        \/ InvokeHost(t)

Spec == Init /\ [][Next]_vars

\* Handles alone: every interleaving of construction, clone and drop, with
\* create_connection as the source of connection handles.
InitHandles == InitWith(MaxConnectionOps, MaxHandleOps)

NextHandles == \E t \in Threads : HandleStep(t) \/ ConnectionStep(t)

SpecHandles == InitHandles /\ [][NextHandles]_vars

\* Signaling alone.
InitSignaling == InitWith(MaxSignalingOps, 0)

NextSignaling == \E t \in Threads : SignalingStep(t) \/ InvokeHost(t)

SpecSignaling == InitSignaling /\ [][NextSignaling]_vars

\* on_send_ice_candidates alone, over every input sequence.
InitIce == InitWith(MaxIceOps, 0)

NextIce == \E t \in Threads : OnSendAnyIceCandidates(t) \/ IceInvoke(t)

SpecIce == InitIce /\ [][NextIce]_vars

\* Call-level operations alone.
InitCalls == InitWith(MaxCallOps, 1)

NextCalls == \E t \in Threads : CallContextNew(t) \/ CallStep(t) \/ InvokeHost(t)

SpecCalls == InitCalls /\ [][NextCalls]_vars

\* Construction, then the operations that read the cache and those that
\* clone the platform.
InitCache ==
    /\ attached = [t \in Threads |-> FALSE]
    /\ classCache = {}
    /\ handles = [h \in HandleIds |-> NoHandleRec]
    /\ pc = [t \in Threads |-> Idle]
    /\ issued = [c \in ConnIds |-> <<>>]
    /\ hostLog = [c \in ConnIds |-> <<>>]
    /\ remotes = [c \in ConnIds |-> "live"]
    /\ opsLeft = MaxCacheOps
    /\ ownerOps = MaxOwnerOps

CacheStep(t) ==
    \/ HandleStep(t)
    \/ ConnectionStep(t)
    \/ OnEvent(t)
    \/ EventLookup(t)
    \/ OnSendIceCandidates(t)
    \/ IceInvoke(t)
    \/ InvokeHost(t)

NextCache == New \/ (Constructed /\ \E t \in Threads : CacheStep(t))

SpecCache == InitCache /\ [][NextCache]_vars

\* The identifier conversions alone, over every two connection ids.
InitIds ==
    /\ attached = [t \in Threads |-> FALSE]
    /\ classCache = RequiredClasses
    /\ handles = [h \in HandleIds |-> NoHandleRec]
    /\ \E a \in CallIds, b \in CallIds, d \in DeviceIds, e \in DeviceIds :
         pc = [t \in Threads |->
                 [Idle EXCEPT !.op = "marshal_ids", !.step = "ids", !.arg = <<a, d, b, e>>]]
    /\ issued = [c \in ConnIds |-> <<>>]
    /\ hostLog = [c \in ConnIds |-> <<>>]
    /\ remotes = [c \in ConnIds |-> "live"]
    /\ opsLeft = 0
    /\ ownerOps = 0

NextIds == \E t \in Threads : MarshalIds(t)

SpecIds == InitIds /\ [][NextIds]_vars

\* ================================================================== claims
InDrop(t) == pc[t].step \in {"drop_close", "drop_fields"}

\* The close calls in the record of thread t.
CloseCalls(t) ==
    {i \in 1..Len(pc[t].calls) : pc[t].calls[i].method \in {"closeCall", "closeConnection"}}

\* C1, as stated: once every owner of a handle is dropped and its inner
\* structure is released, the host has received the close notification for it
\* exactly once.
C1_ClosedExactlyOnce ==
    \A h \in HandleIds : handles[h].phase = "freed" => handles[h].closes = 1

\* C1, amended: the bridge invokes the matching close method at most once per
\* handle, so the host receives at most one close notification for it; once
\* all owners are dropped it has invoked it exactly once when the thread of
\* the last drop was bound or could be attached, and not at all when the
\* attachment failed; the method is closeCall for a call-context handle and
\* closeConnection for a connection handle.
C1_ClosedAtMostOnce ==
    /\ \A h \in HandleIds :
         /\ handles[h].closes <= handles[h].attempts
         /\ handles[h].attempts <= 1
         /\ handles[h].phase = "freed" =>
              handles[h].attempts = (IF handles[h].dropEnv = "ok" THEN 1 ELSE 0)
    /\ \A t \in Threads : \A i \in CloseCalls(t) :
         pc[t].calls[i].method =
            (IF handles[Dropping(pc[t])].kind = "call" THEN "closeCall"
             ELSE "closeConnection")

\* A handle that was cloned, whose last owner thread 2 dropped, and whose
\* close notification the host received.
C1_Witness ==
    \E h \in HandleIds :
        /\ handles[h].shared
        /\ handles[h].phase = "freed"
        /\ handles[h].closes = 1
        /\ pc[2].op = "drop" /\ pc[2].h = h /\ pc[2].step = "done"

\* C2: no close of a handle has been invoked while an owning wrapper of it is
\* alive; the inner Drop of a handle runs on one thread, the one whose drop
\* released the last owner, and the close invocations of the handle are those
\* that thread made.
C2_CloseOnlyAfterLastOwner ==
    \A h \in HandleIds :
        /\ (handles[h].attempts > 0 \/ handles[h].closes > 0) => handles[h].owners = 0
        /\ handles[h].phase \in {"dropping", "freed"} => handles[h].owners = 0
        /\ handles[h].phase = "dropping" =>
             /\ Cardinality({t \in Threads : InDrop(t) /\ Dropping(pc[t]) = h}) = 1
             /\ \A t \in Threads :
                  InDrop(t) /\ Dropping(pc[t]) = h =>
                      Cardinality(CloseCalls(t)) = handles[h].attempts

\* The last of two owners has been dropped and the close was invoked, by the
\* thread that made that drop.
C2_Witness ==
    \E h \in HandleIds, t \in Threads :
        /\ handles[h].shared
        /\ handles[h].owners = 0
        /\ handles[h].attempts = 1
        /\ pc[t].step = "drop_fields" /\ pc[t].op = "drop" /\ pc[t].h = h
        /\ Cardinality(CloseCalls(t)) = 1

\* C3: when the attachment attempted by the inner Drop of a handle fails, no
\* close is invoked for the handle, then or later, and the drop runs to its
\* end and returns nothing: no error reaches the caller.
C3_FailedAttachSkipsClose ==
    /\ \A h \in HandleIds :
         handles[h].dropEnv = "failed" =>
            handles[h].attempts = 0 /\ handles[h].closes = 0
    /\ \A t \in Threads :
         (pc[t].op = "drop" /\ handles[pc[t].h].dropEnv = "failed") =>
            /\ pc[t].step \in {"drop_fields", "done"}
            /\ pc[t].calls = <<>>
            /\ pc[t].res = Unit

\* The drop is over, its attachment failed and no close was invoked, although
\* the dropping thread was attached afterwards.
C3_Witness ==
    \E t \in Threads :
        /\ pc[t].op = "drop" /\ pc[t].step = "done"
        /\ handles[pc[t].h].dropEnv = "failed"
        /\ handles[pc[t].h].phase = "freed"
        /\ handles[pc[t].h].attempts = 0
        /\ attached[t]

\* The steps that come after java_env() and before or at a boundary call.
PastEnv(t) ==
    pc[t].step \in {"call", "ev_lookup", "ice_call", "cmp_call", "cc_call", "cc_wrap",
                    "drop_close"}

AdapterOp(t) == pc[t].op \notin {"none", "drop"}

\* C4: every invocation of a host method (notification, query, factory, enum
\* lookup, close) is made by a thread that is bound to the JVM at that moment,
\* and a thread that stands between java_env() and a boundary call is bound.
C4_CallsOnlyFromBoundThreads ==
    \A t \in Threads :
        /\ \A i \in 1..Len(pc[t].calls) : pc[t].calls[i].bound
        /\ PastEnv(t) => attached[t]

\* A handle drop and an adapter operation have both invoked the host, each on
\* its own thread.
C4_Witness ==
    \E t \in Threads, u \in Threads :
        /\ pc[t].op = "drop" /\ Len(pc[t].calls) = 1 /\ pc[t].calls[1].bound
        /\ AdapterOp(u) /\ pc[u].step = "done" /\ Len(pc[u].calls) >= 1
        /\ pc[u].calls[1].bound

\* C5: an adapter operation whose thread cannot be attached has ended with
\* the attachment error and has invoked no host method and constructed no
\* handle; the step in which it fails changes nothing but the failing
\* operation's own record: the handles, the descriptor cache, the attachment
\* of every thread, the host's log and the other threads are as before, so
\* what comes later runs as if the failure had not happened.
C5_FailedOpState ==
    \A t \in Threads :
        pc[t].env = "failed" =>
            /\ pc[t].step = "done"
            /\ pc[t].res = [kind |-> "AttachError", target |-> "", method |-> ""]
            /\ pc[t].calls = <<>>
            /\ pc[t].made = 0

C5_FailedOpStep ==
    \A t \in Threads :
        (pc'[t] # pc[t] /\ pc'[t].env = "failed") =>
            /\ handles' = handles
            /\ classCache' = classCache
            /\ attached' = attached
            /\ hostLog' = hostLog
            /\ \A u \in Threads \ {t} : pc'[u] = pc[u]

C5_AttachFailureIsLocal == [](C5_FailedOpState) /\ [][C5_FailedOpStep]_vars

\* An operation failed to attach on one thread; an operation issued after it
\* for the same connection, on another thread, has completed with Ok and the
\* host has received its notification.
C5_Witness ==
    \E t \in Threads, u \in Threads, c \in ConnIds :
        /\ pc[t].env = "failed" /\ pc[t].conn = c /\ pc[t].tk = 1
        /\ pc[u].step = "done" /\ pc[u].conn = c /\ pc[u].tk = 2 /\ pc[u].res = Ok
        /\ issued[c][2].pre = {1}
        /\ hostLog[c] = <<2>>

\* The continuation of an operation of thread t that has its env.
Continue(t) == InvokeHost(t) \/ IceInvoke(t)

Busy(t) == pc[t].step \notin {"idle", "done"}

\* Each host method returns, and every thread keeps running.
FairSignaling == SpecSignaling /\ \A t \in Threads : WF_vars(Continue(t))

C6_StepIsOwn ==
    \A t \in Threads, u \in Threads :
        (t # u /\ pc'[t] # pc[t]) => (pc'[u] = pc[u] /\ attached'[u] = attached[u])

\* C6: with signaling operations running on several threads for several
\* connections, every operation that has begun ends; an operation under way
\* can always take its next step whatever the other threads are doing (it
\* waits for nothing another thread holds); and a step of one thread changes
\* no other thread's position or attachment.
C6_ConcurrentOpsTerminate ==
    /\ \A t \in Threads : Busy(t) ~> (pc[t].step = "done")
    /\ [](\A t \in Threads : Busy(t) => ENABLED Continue(t))
    /\ [][C6_StepIsOwn]_vars

\* Two threads are inside operations for two distinct connections at once,
\* each attached.
C6_Witness ==
    \E t \in Threads, u \in Threads :
        /\ t # u
        /\ pc[t].step = "call" /\ pc[u].step = "call"
        /\ pc[t].conn # pc[u].conn
        /\ attached[t] /\ attached[u]

Range(f) == {f[i] : i \in DOMAIN f}

\* The host method each signaling operation notifies.
ExpectedMethod(op) ==
    CASE op = "on_send_offer" -> "onSendOffer"
      [] op = "on_send_answer" -> "onSendAnswer"
      [] op = "on_send_ice_candidates" -> "onSendIceCandidates"
      [] op = "on_send_hangup" -> "onSendHangup"
      [] op = "on_send_busy" -> "onSendBusy"

\* C7: for each connection id the host's log holds each notification once;
\* notifications are in the order of issue (when one operation returned
\* before another was issued, the host saw the first one first); an
\* operation that returned Ok is in the log (nothing is dropped or deferred
\* past the return), and the log holds exactly the operations whose host
\* method ran, each under its own method name and connection id.
C7_NotificationsInIssueOrder ==
    /\ \A c \in ConnIds :
         LET log == hostLog[c]
             iss == issued[c]
         IN
         /\ \A i \in 1..Len(log), j \in 1..Len(log) :
              i < j => (log[i] # log[j] /\ log[j] \notin iss[log[i]].pre)
         /\ \A i \in 1..Len(log) : log[i] \in 1..Len(iss)
         /\ \A k \in 1..Len(iss) : iss[k].ret = "Ok" => k \in Range(log)
    /\ \A t \in Threads :
         (pc[t].tk # 0 /\ pc[t].step = "done") =>
            /\ pc[t].res = Ok => Len(pc[t].calls) = 1
            /\ (pc[t].tk \in Range(hostLog[pc[t].conn])) <=>
                  (Len(pc[t].calls) = 1 /\ pc[t].calls[1].out # "rejected")
            /\ \A i \in 1..Len(pc[t].calls) :
                  /\ pc[t].calls[i].method = ExpectedMethod(pc[t].op)
                  /\ pc[t].calls[i].args[1] = pc[t].conn

\* Two operations were issued for one connection, the second after the first
\* had returned, and the host has received both, in that order.
C7_Witness ==
    \E c \in ConnIds :
        /\ hostLog[c] = <<1, 2>>
        /\ issued[c][2].pre = {1}
        /\ issued[c][1].ret = "Ok" /\ issued[c][2].ret = "Ok"

\* C8: whenever on_send_ice_candidates invokes onSendIceCandidates, the list
\* it passes has as many elements as the input and its i-th element carries
\* the mid, m-line index and description of the i-th input candidate; the
\* host is invoked whenever marshaling did not fail, the empty input
\* included, which yields the empty list.
C8_ListMirrorsInput ==
    \A t \in Threads :
        (pc[t].op = "on_send_ice_candidates" /\ pc[t].step = "done") =>
            LET cands == pc[t].arg[2] IN
            /\ pc[t].res.kind \in {"Ok", "JniCallMethod"} <=> Len(pc[t].calls) = 1
            /\ \A i \in 1..Len(pc[t].calls) :
                 LET list == pc[t].calls[i].args[3] IN
                 /\ pc[t].calls[i].method = "onSendIceCandidates"
                 /\ Len(list) = Len(cands)
                 /\ \A k \in 1..Len(cands) :
                      /\ list[k].sdpMid = [jstring |-> cands[k].sdp_mid]
                      /\ list[k].sdpMLineIndex = cands[k].sdp_mline_index
                      /\ list[k].sdp = [jstring |-> cands[k].sdp]

\* Two different candidates were passed and the host was notified.
C8_Witness ==
    \E t \in Threads :
        /\ pc[t].op = "on_send_ice_candidates" /\ pc[t].step = "done"
        /\ pc[t].res = Ok
        /\ Len(pc[t].arg[2]) = 2
        /\ pc[t].arg[2][1] # pc[t].arg[2][2]
        /\ Len(pc[t].calls[1].args[3]) = 2

\* C9: when createConnection returned a null object, create_connection has
\* ended with the CreateJniConnection error, has constructed no handle and
\* has invoked no close; no handle ever wraps a null object, so no
\* closeConnection is issued for such an attempt.
C9_NullConnectionIsAnError ==
    /\ \A t \in Threads :
         (pc[t].op = "create_connection" /\ pc[t].val = <<"null">>) =>
            /\ pc[t].step = "done"
            /\ pc[t].res = [kind |-> "CreateJniConnection", target |-> "", method |-> ""]
            /\ pc[t].made = 0
            /\ CloseCalls(t) = {}
    /\ \A h \in HandleIds : handles[h].obj # "null"

\* createConnection returned null while no connection handle exists.
C9_Witness ==
    \E t \in Threads :
        /\ pc[t].op = "create_connection" /\ pc[t].val = <<"null">>
        /\ pc[t].step = "done"
        /\ \A h \in HandleIds : handles[h].kind # "conn"

\* The onEvent calls in the record of thread t.
OnEventCalls(t) == {i \in 1..Len(pc[t].calls) : pc[t].calls[i].method = "onEvent"}

\* C10: an on_event that obtained its env looks the event up by its ordinal
\* through fromNativeIndex; it invokes onEvent only after a successful
\* lookup and with the enumeration value of that ordinal; when the lookup
\* fails it has ended with the JniCallStaticMethod error naming the CallEvent
\* class and fromNativeIndex, without invoking onEvent.
C10_EventLookupOrNamedError ==
    \A t \in Threads :
        pc[t].op = "on_event" =>
            LET p == pc[t]
                event == p.arg[1]
            IN
            /\ \A i \in OnEventCalls(t) :
                 /\ i = 2
                 /\ p.calls[1].method = "fromNativeIndex"
                 /\ p.calls[1].args = <<event>>
                 /\ p.calls[1].out = "ok"
                 /\ p.calls[2].args = <<p.conn, [enum |-> "CallEvent", index |-> event]>>
            /\ (Len(p.calls) >= 1 /\ p.calls[1].out # "ok") =>
                 /\ p.step = "done"
                 /\ p.res = [kind |-> "JniCallStaticMethod",
                             target |-> "org/signal/ringrtc/CallManager$CallEvent",
                             method |-> "fromNativeIndex"]
                 /\ OnEventCalls(t) = {}
            /\ (p.step = "done" /\ p.env = "ok") =>
                 \/ p.res.kind = "JniCallStaticMethod" /\ Len(p.calls) = 1
                 \/ p.res.kind \in {"Ok", "JniCallMethod"} /\ OnEventCalls(t) = {2}

\* One on_event delivered the last defined event value; another failed its
\* lookup.
C10_Witness ==
    \E t \in Threads, u \in Threads :
        /\ pc[t].op = "on_event" /\ pc[t].step = "done" /\ pc[t].res = Ok
        /\ pc[t].arg = <<NumEvents - 1>>
        /\ pc[u].op = "on_event" /\ pc[u].step = "done"
        /\ pc[u].res.kind = "JniCallStaticMethod"

CloseMethods == {"closeCall", "closeConnection"}

\* C11: when a host method invoked by an adapter operation does not return
\* normally (it throws, or the call is rejected), the operation has ended
\* with an error, made no further notification, and does not report Ok; an
\* operation that reports Ok has had every host method it invoked return
\* normally.  The close call of a handle release is the one invocation whose
\* failure changes no result: the drop ends as it would have.
C11_InvocationFailurePropagates ==
    \A t \in Threads :
        /\ AdapterOp(t) =>
             /\ \A i \in 1..Len(pc[t].calls) :
                  (pc[t].calls[i].out # "ok" /\ pc[t].calls[i].method \notin CloseMethods) =>
                      /\ pc[t].step = "done"
                      /\ pc[t].res.kind \in {"JniCallMethod", "JniCallStaticMethod"}
                      /\ i = Len(pc[t].calls)
             /\ (pc[t].step = "done" /\ pc[t].res = Ok) =>
                  \A i \in 1..Len(pc[t].calls) : pc[t].calls[i].out = "ok"
        /\ (pc[t].op = "drop" /\ pc[t].step = "done") =>
             /\ pc[t].res = Unit
             /\ handles[pc[t].h].phase = "freed"

\* A notification threw and its operation returned the invocation error; on
\* the other thread a close call was rejected and the drop went on to free
\* the handle.
C11_Witness ==
    \E t \in Threads, u \in Threads :
        /\ AdapterOp(t) /\ pc[t].step = "done"
        /\ Len(pc[t].calls) = 1 /\ pc[t].calls[1].out = "exception"
        /\ pc[t].res.kind = "JniCallMethod"
        /\ pc[u].op = "drop" /\ pc[u].step = "done"
        /\ Len(pc[u].calls) = 1 /\ pc[u].calls[1].out = "rejected"
        /\ handles[pc[u].h].phase = "freed"

\* C12: a compare_remotes whose thread is attached has invoked the host's
\* compareRemotes once, with the two remotes it was given, whether or not
\* they are the same reference; when it returns Ok its value is the boolean
\* the host answered, and when the invocation failed it returns the error
\* and no value.
C12_CompareIsTheHostsAnswer ==
    \A t \in Threads :
        (pc[t].op = "compare_remotes" /\ pc[t].step = "done" /\ pc[t].env = "ok") =>
            /\ Len(pc[t].calls) = 1
            /\ pc[t].calls[1].method = "compareRemotes"
            /\ pc[t].calls[1].args = pc[t].arg
            /\ pc[t].res = Ok <=> pc[t].calls[1].out = "ok"
            /\ pc[t].val = pc[t].calls[1].ret
            /\ pc[t].res = Ok => Len(pc[t].val) = 1

\* The same remote was passed twice and the host answered that they differ;
\* on the other thread two different remotes were passed and the host
\* answered that they are the same.
C12_Witness ==
    \E t \in Threads, u \in Threads :
        /\ pc[t].op = "compare_remotes" /\ pc[t].step = "done" /\ pc[t].res = Ok
        /\ pc[t].arg[1] = pc[t].arg[2] /\ pc[t].val = <<FALSE>>
        /\ pc[u].op = "compare_remotes" /\ pc[u].step = "done" /\ pc[u].res = Ok
        /\ pc[u].arg[1] # pc[u].arg[2] /\ pc[u].val = <<TRUE>>

C13_CacheState ==
    /\ classCache \in {{}, RequiredClasses}
    /\ \A t \in Threads :
         /\ pc[t].op # "none" => classCache = RequiredClasses
         /\ pc[t].res.kind = "ClassCacheNotFound" =>
              (pc[t].step = "done" /\ pc[t].calls = <<>>)
         /\ (pc[t].op \in {"on_event", "on_send_ice_candidates"} /\ pc[t].env = "ok") =>
              pc[t].res.kind # "ClassCacheNotFound"
    /\ \A h \in HandleIds :
         handles[h].phase # "none" => handles[h].cache = classCache

C13_CacheStep ==
    /\ classCache' # classCache =>
         /\ classCache = {} /\ classCache' = RequiredClasses
         /\ \A t \in Threads : pc[t] = Idle /\ pc'[t] = Idle
         /\ \A h \in HandleIds : handles[h].phase = "none"
    /\ \A h \in HandleIds :
         handles[h].phase # "none" => handles'[h].cache = handles[h].cache

\* C13: the class cache is either not built or holds every class new() adds
\* (a construction that cannot resolve one of them yields no platform, and
\* nothing runs without a platform); the one step that changes it is the
\* construction, before any operation and any handle; later no operation,
\* clone or drop changes it or the copy a handle's platform clone carries,
\* and every copy equals the original.  An operation that ended with the
\* missing-class error has invoked no host method; with the cache that new()
\* builds no lookup of on_event or on_send_ice_candidates misses.
C13_CacheIsReadOnly == [](C13_CacheState) /\ [][C13_CacheStep]_vars

\* The platform was constructed, create_connection made a handle with its
\* own clone of the platform, the handle was dropped, and an on_event has
\* found its class and notified the host.
C13_Witness ==
    \E h \in HandleIds, t \in Threads :
        /\ handles[h].kind = "conn" /\ handles[h].phase = "freed"
        /\ handles[h].cache = RequiredClasses
        /\ classCache = RequiredClasses
        /\ pc[t].op = "on_event" /\ pc[t].step = "done" /\ pc[t].res = Ok

\* C14: every remote peer reference is live in every state, whatever
\* operations have passed it to the host and whatever handles have been
\* dropped; the object of every close call is the handle being dropped, and
\* the close methods are invoked by handle drops only.
C14_RemotesOutliveTheBridge ==
    /\ \A c \in ConnIds : remotes[c] = "live"
    /\ \A t \in Threads :
         /\ \A i \in CloseCalls(t) :
              /\ pc[t].calls[i].args[1] = Dropping(pc[t])
              /\ handles[Dropping(pc[t])].phase \in {"dropping", "freed"}
         /\ (AdapterOp(t) /\ pc[t].made = 0) => CloseCalls(t) = {}

\* A notification carried a remote to the host and returned, a handle was
\* dropped with its close call, and the remote is live.
C14_Witness ==
    \E t \in Threads, u \in Threads, c \in ConnIds :
        /\ AdapterOp(t) /\ pc[t].step = "done" /\ pc[t].conn = c
        /\ Len(pc[t].calls) >= 1 /\ pc[t].calls[Len(pc[t].calls)].args[1] = c
        /\ pc[u].op = "drop" /\ pc[u].step = "done" /\ CloseCalls(u) # {}
        /\ remotes[c] = "live"

C15_ReturnedState ==
    \A t \in Threads :
        pc[t].op = "create_connection" =>
            /\ pc[t].calls # <<>> =>
                 (pc[t].calls[1].method = "createConnection"
                     /\ pc[t].res.kind # "ConnectionNew")
            /\ pc[t].res.kind = "ConnectionNew" => (pc[t].calls = <<>> /\ pc[t].made = 0)
            /\ (pc[t].step = "done" /\ pc[t].res = Ok) =>
                 /\ pc[t].made # 0
                 /\ handles[pc[t].made].kind = "conn"
                 /\ handles[pc[t].made].phase # "none"
                 /\ handles[pc[t].made].obj = "object"
                 /\ <<handles[pc[t].made].obj>> = pc[t].val
                 /\ handles[pc[t].made].cache = classCache
                 /\ Len(pc[t].calls) = 1 /\ pc[t].calls[1].out = "ok"
                 /\ \A u \in Threads \ {t} :
                      pc[u].op = "create_connection" => pc[u].made # pc[t].made
            /\ pc[t].step \in {"cc_call", "cc_wrap"} => pc[t].made = 0

C15_ReturnStep ==
    \A t \in Threads :
        /\ (pc[t].step = "cc_wrap" /\ pc'[t].step = "done" /\ pc'[t].res = Ok) =>
             \E h \in HandleIds :
                /\ handles[h].phase = "none"
                /\ handles'[h].phase = "live" /\ handles'[h].strong = 1
                /\ handles'[h].owners = 1
                /\ pc'[t].made = h
                /\ \A g \in HandleIds \ {h} : handles'[g] = handles[g]
        /\ (pc'[t] # pc[t] /\ pc'[t].op = "create_connection" /\ pc[t].step # "cc_wrap") =>
             \A h \in HandleIds : handles[h].phase = "none" => handles'[h].phase = "none"

\* C15: a create_connection that returned Ok made one connection handle, in
\* the step in which it returned: the handle holds the non-null object the
\* host's createConnection returned and a copy of the adapter's platform,
\* and has the returned connection as its one owner; no other step of
\* create_connection makes a handle.  The native connection exists before
\* the host is asked: when it cannot be created the host is not called.
C15_OneHandlePerConnection == [](C15_ReturnedState) /\ [][C15_ReturnStep]_vars

\* Two create_connection calls returned Ok, each with its own handle.
C15_Witness ==
    /\ \A t \in Threads :
         pc[t].op = "create_connection" /\ pc[t].step = "done" /\ pc[t].res = Ok
    /\ pc[1].made # pc[2].made
    /\ handles[pc[1].made].phase = "live" /\ handles[pc[2].made].phase = "live"

\* C16: a signaling operation that ended with a marshaling error has invoked
\* no host method and is not in the host's log; every onSendIceCandidates
\* the host was asked to run carries a list as long as the input, never a
\* shorter one.
C16_AllOrNothing ==
    \A t \in Threads :
        pc[t].op \in SignalingOps =>
            /\ pc[t].res.kind = "JniError" =>
                 /\ pc[t].step = "done"
                 /\ pc[t].calls = <<>>
                 /\ pc[t].tk \notin Range(hostLog[pc[t].conn])
                 /\ issued[pc[t].conn][pc[t].tk].ret = "Err"
            /\ \A i \in 1..Len(pc[t].calls) :
                 pc[t].op = "on_send_ice_candidates" =>
                    Len(pc[t].calls[i].args[3]) = Len(pc[t].arg[2])

\* An on_send_ice_candidates with two candidates and an on_send_offer for
\* the same connection both failed in marshaling, and the host has seen
\* nothing for that connection.
C16_Witness ==
    \E t \in Threads, u \in Threads :
        /\ pc[t].op = "on_send_ice_candidates" /\ pc[t].step = "done"
        /\ pc[t].res.kind = "JniError" /\ Len(pc[t].arg[2]) = 2
        /\ pc[u].op = "on_send_offer" /\ pc[u].step = "done"
        /\ pc[u].res.kind = "JniError"
        /\ pc[u].conn = pc[t].conn
        /\ hostLog[pc[t].conn] = <<>>

\* The unsigned value of w bits whose bit pattern the signed value s has.
FromSigned(s, w) == s % (2^w)

\* C17: for every two connection ids, the values the host receives are in
\* the range of the signed type, are congruent to the identifiers modulo
\* 2^w, give the identifiers back, and are equal only when the identifiers
\* are equal, for the call id and for the device id.
C17_IdsCrossWithoutLoss ==
    \A t \in Threads :
        (pc[t].op = "marshal_ids" /\ pc[t].step = "done") =>
            LET a == pc[t].arg
                v == pc[t].val
            IN
            /\ v[1] \in -(2^(CallIdBits - 1))..(2^(CallIdBits - 1) - 1)
            /\ v[2] \in -(2^(DeviceIdBits - 1))..(2^(DeviceIdBits - 1) - 1)
            /\ FromSigned(v[1], CallIdBits) = a[1]
            /\ FromSigned(v[3], CallIdBits) = a[3]
            /\ FromSigned(v[2], DeviceIdBits) = a[2]
            /\ FromSigned(v[4], DeviceIdBits) = a[4]
            /\ v[1] = v[3] => a[1] = a[3]
            /\ v[2] = v[4] => a[2] = a[4]

\* The largest call id and the largest device id reached the host as -1,
\* next to identifiers with the top bit clear.
C17_Witness ==
    \E t \in Threads :
        /\ pc[t].op = "marshal_ids" /\ pc[t].step = "done"
        /\ pc[t].arg[1] = 2^CallIdBits - 1 /\ pc[t].val[1] = -1
        /\ pc[t].arg[2] = 2^DeviceIdBits - 1 /\ pc[t].val[2] = -1
        /\ pc[t].arg[3] = 2^(CallIdBits - 1) - 1 /\ pc[t].val[3] = pc[t].arg[3]
        /\ pc[t].arg[4] = 0 /\ pc[t].val[4] = 0

\* C18, as stated: a connection object the host returned non-null gets its
\* closeConnection once no native owner of it is left, attachment
\* succeeding: a handle that was freed by an attached thread had its close
\* call, and a create_connection that failed after the host returned the
\* object, and so left it without an owner, has made the close call.
C18_EveryHostConnectionClosed ==
    /\ \A h \in HandleIds :
         (handles[h].kind = "conn" /\ handles[h].phase = "freed"
             /\ handles[h].dropEnv = "ok") => handles[h].attempts = 1
    /\ \A t \in Threads :
         (pc[t].op = "create_connection" /\ pc[t].step = "done"
             /\ pc[t].val = <<"object">> /\ pc[t].res # Ok /\ attached[t]) =>
            \E i \in CloseCalls(t) : pc[t].calls[i].method = "closeConnection"

C19_RefState ==
    /\ \A h \in HandleIds :
         /\ handles[h].phase \in {"live", "dropping"} => handles[h].refLive
         /\ handles[h].phase = "freed" => ~handles[h].refLive
    /\ \A t \in Threads : \A i \in CloseCalls(t) :
         pc[t].calls[i].args = <<Dropping(pc[t]), TRUE>>

C19_RefStep ==
    \A h \in HandleIds :
        (handles[h].refLive /\ ~handles'[h].refLive) =>
            \E t \in Threads :
                /\ pc[t].step = "drop_fields" /\ Dropping(pc[t]) = h
                /\ pc'[t].step = "done"
                /\ Cardinality(CloseCalls(t)) =
                      (IF handles[h].dropEnv = "ok" THEN 1 ELSE 0)
                /\ pc'[t].calls = pc[t].calls

\* C19: a handle holds its host object reference while it is live and while
\* its inner Drop runs; every close call is given the handle's object while
\* the reference is held; the reference is released in the step after the
\* drop body, by the dropping thread, when the close call has returned (the
\* thread had its env) or was skipped (it had none), and no call is made in
\* that step.
C19_CloseBeforeRelease == [](C19_RefState) /\ [][C19_RefStep]_vars

\* The close call of a handle has returned and the handle's reference is
\* still held: the dropping thread is about to release the fields.
C19_Witness ==
    \E t \in Threads :
        /\ pc[t].op = "drop" /\ pc[t].step = "drop_fields"
        /\ Cardinality(CloseCalls(t)) = 1
        /\ pc[t].calls[1].args[2]
        /\ handles[pc[t].h].refLive /\ handles[pc[t].h].closes = 1

\* The step is the release of the fields of a handle by thread t: the drop
\* of the AndroidPlatform the handle holds.
PlatformDropStep(t) == pc[t].step = "drop_fields" /\ pc'[t].step = "done"

C20_AttachStep ==
    \A t \in Threads :
        /\ attached[t] => attached'[t]
        /\ (attached[t] /\ pc'[t] # pc[t]) => pc'[t].env # "failed"
        /\ (attached[t] /\ pc[t].step \in {"idle", "done"} /\ pc'[t].op = "drop"
              /\ pc'[t] # pc[t]) => handles'[pc'[t].h].dropEnv = "ok"
        /\ PlatformDropStep(t) =>
             /\ pc'[t].calls = pc[t].calls
             /\ pc'[t].res = pc[t].res
             /\ hostLog' = hostLog
             /\ remotes' = remotes
             /\ \A h \in HandleIds :
                  /\ handles'[h].closes = handles[h].closes
                  /\ handles'[h].attempts = handles[h].attempts
             /\ \A u \in Threads \ {t} : attached'[u] = attached[u]

\* C20: no step takes a thread's binding away; a bound thread is not
\* attached again, so none of its operations or drops meets an attachment
\* failure; and the drop of the platform held by a handle may bind the
\* dropping thread and does nothing else: it invokes no host method, issues
\* no close, changes no result, and an attachment failure in it leaves the
\* drop to end as it would have.
C20_AttachmentIsMonotonic == [][C20_AttachStep]_vars

\* A drop ended on a thread that could be attached neither for the close
\* call nor in the drop of the platform: the handle is freed, no host method
\* was invoked, the thread is unbound; the other thread was bound by an
\* operation and has stayed bound.
C20_Witness ==
    \E t \in Threads, u \in Threads :
        /\ pc[t].op = "drop" /\ pc[t].step = "done" /\ pc[t].res = Unit
        /\ handles[pc[t].h].phase = "freed" /\ handles[pc[t].h].dropEnv = "failed"
        /\ pc[t].calls = <<>> /\ ~attached[t]
        /\ AdapterOp(u) /\ pc[u].step = "done" /\ pc[u].env = "ok" /\ attached[u]

====
